---------------------------- MODULE Spec2Model ----------------------------
(***************************************************************************)
(* AstroLumina star data explorer: the CSV loader (data_processing.py),    *)
(* the chart builders (visualization.py) and the Streamlit script that     *)
(* loads the catalog and renders one page per run (app.py).                *)
(*                                                                         *)
(* A table cell is a record [k, n, s]: k = "num" carries the number n,     *)
(* k = "str" the string s, k = "null" is pandas' NaN / missing value.      *)
(* Real-valued columns are carried as integers (magnitudes in hundredths). *)
(* Percentages are exact rationals [num, den].                             *)
(***************************************************************************)
EXTENDS Integers, Sequences, FiniteSets, TLC

VARIABLES
    file,    \* the CSV at the default path of load_star_data
    pc,      \* position of the script: "load", "select", "dispatch", "done",
             \* "stopped" (or "builders" when the builders are called directly)
    run,     \* number of the current run of the script
    cache,   \* the value st.cache_data holds for get_data
    loads,   \* outcome of get_data in each run so far: "ok" or "error"
    df,      \* the script's df (the table handed to the builders)
    page,    \* the page selected in the sidebar
    shown,   \* what the current run has put on the page
    calls,   \* the chart builder calls made: run, builder, the table before
             \* and after the call, the figure returned
    fig      \* the script's fig

vars == <<file, pc, run, cache, loads, df, page, shown, calls, fig>>

(***************************************************************************)
(* Bounds of the model                                                     *)
(***************************************************************************)
MaxRows == 3

MaxRuns == 2

MaxCalls == 2

MaxRowsLacking == 1

(***************************************************************************)
(* Cells                                                                   *)
(***************************************************************************)
Null == [k |-> "null", n |-> 0, s |-> ""]

Num(i) == [k |-> "num", n |-> i, s |-> ""]

Str(t) == [k |-> "str", n |-> 0, s |-> t]

IsNull(c) == c.k = "null"

(***************************************************************************)
(* Column names                                                            *)
(***************************************************************************)
TemperatureCol == "Temperature (K)"

LuminosityCol == "Luminosity(L/Lo)"

RadiusCol == "Radius(R/Ro)"

MagnitudeCol == "Absolute magnitude(Mv)"

StarTypeCol == "Star type"

StarColorCol == "Star color"

SpectralCol == "Spectral Class"

StarTypeLabelCol == "Star type label"

CsvColumns ==
    {TemperatureCol, LuminosityCol, RadiusCol, MagnitudeCol,
     StarTypeCol, StarColorCol, SpectralCol}

(***************************************************************************)
(* data_processing.py / visualization.py: star_type_mapping                *)
(***************************************************************************)
\* The mapping keyed from 1 instead of 0.
star_type_mapping_OffByOne ==
    (1 :> "Brown Dwarf") @@ (2 :> "Red Dwarf") @@ (3 :> "White Dwarf") @@
    (4 :> "Main Sequence") @@ (5 :> "Supergiants") @@ (6 :> "Hypergiants")

star_type_mapping ==
    (0 :> "Brown Dwarf") @@ (1 :> "Red Dwarf") @@ (2 :> "White Dwarf") @@
    (3 :> "Main Sequence") @@ (4 :> "Supergiants") @@ (5 :> "Hypergiants")

\* Series.map(dict): a key of the dict gives its value, anything else NaN.
map_cell(c, mapping) ==
    IF c.k = "num" /\ c.n \in DOMAIN mapping THEN Str(mapping[c.n]) ELSE Null

(***************************************************************************)
(* Tables (pandas DataFrame): the set of columns, the rows in order, and   *)
(* the dtype of the columns whose dtype the code tests.                    *)
(***************************************************************************)
NoDf == [columns |-> {}, rows |-> <<>>, numeric |-> {}]

Column(t, col) == [i \in 1..Len(t.rows) |-> t.rows[i][col]]

\* pandas.api.types.is_numeric_dtype(t[col])
is_numeric_dtype(t, col) == col \in t.numeric

\* read_csv's dtype inference: a column with a string cell, or of an empty
\* table, is of dtype object; otherwise it is int64 / float64.
InferNumeric(columns, rows) ==
    {c \in columns :
        /\ Len(rows) > 0
        /\ \A i \in 1..Len(rows) : rows[i][c].k # "str"}

\* pd.read_csv(file_path)
read_csv(f) ==
    IF ~f.exists
    THEN [ok |-> FALSE, error |-> "FileNotFoundError", df |-> NoDf]
    ELSE [ok |-> TRUE, error |-> "",
          df |-> [columns |-> f.columns, rows |-> f.rows,
                  numeric |-> InferNumeric(f.columns, f.rows)]]

\* df[col] = df[src].map(mapping): the new column holds strings and NaN.
AssignMapped(t, col, src, mapping) ==
    [columns |-> t.columns \cup {col},
     rows |-> [i \in 1..Len(t.rows) |->
                 [c \in t.columns \cup {col} |->
                     IF c = col THEN map_cell(t.rows[i][src], mapping)
                     ELSE t.rows[i][c]]],
     numeric |-> t.numeric \ {col}]

load_star_data(f) ==
    LET r == read_csv(f) IN
    IF ~r.ok THEN r
    ELSE IF StarTypeCol \notin r.df.columns
    THEN [ok |-> FALSE, error |-> "KeyError", df |-> NoDf]
    ELSE IF is_numeric_dtype(r.df, StarTypeCol)
    THEN [ok |-> TRUE, error |-> "",
          df |-> AssignMapped(r.df, StarTypeCol, StarTypeCol, star_type_mapping)]
    ELSE r


(***************************************************************************)
(* pandas helpers used by the chart builders                               *)
(***************************************************************************)
RECURSIVE Uniques(_)
\* Series.unique(): the distinct values in order of first appearance (all
\* the NaN count as one value).
Uniques(cells) ==
    IF cells = <<>> THEN <<>>
    ELSE LET init == Uniques(SubSeq(cells, 1, Len(cells) - 1))
             last == cells[Len(cells)]
         IN IF \E i \in 1..Len(init) : init[i] = last THEN init
            ELSE Append(init, last)

Occurrences(cells, v) == Cardinality({i \in 1..Len(cells) : cells[i] = v})

\* value_counts(sort=False): the counts in order of first appearance.
SortByCountDesc_Unsorted(tbl) == tbl

RECURSIVE SortByCountDesc(_)
\* sort_values(ascending=False) of the counts: a row goes after every row
\* whose count is at least its own, so equal counts keep the order of first
\* appearance.
SortByCountDesc(tbl) ==
    IF tbl = <<>> THEN <<>>
    ELSE LET sorted == SortByCountDesc(SubSeq(tbl, 1, Len(tbl) - 1))
             e == tbl[Len(tbl)]
             before == SelectSeq(sorted, LAMBDA r : r.Count >= e.Count)
             after == SelectSeq(sorted, LAMBDA r : r.Count < e.Count)
         IN before \o <<e>> \o after

\* Series.value_counts(): dropna=True leaves the NaN out, sort=True orders
\* the values by descending count.
value_counts(cells) ==
    LET present == SelectSeq(cells, LAMBDA c : ~IsNull(c))
        u == Uniques(present)
    IN SortByCountDesc([i \in 1..Len(u) |->
                          [value |-> u[i], Count |-> Occurrences(present, u[i])]])

RECURSIVE SumCounts(_)
SumCounts(tbl) ==
    IF tbl = <<>> THEN 0 ELSE tbl[1].Count + SumCounts(Tail(tbl))

\* numpy's round: to the nearest integer, a half to the even neighbour.
RoundHalfEven(n, d) ==
    LET q == n \div d
        r == n % d
    IN IF 2 * r < d THEN q
       ELSE IF 2 * r > d THEN q + 1
       ELSE IF q % 2 = 0 THEN q ELSE q + 1

\* Count / Count.sum() * 100
Percentage(count, total) == [num |-> 100 * count, den |-> total]

\* (Count / Count.sum() * 100).round(2)
PercentageRounded(count, total) ==
    [num |-> RoundHalfEven(10000 * count, total), den |-> 100]

(***************************************************************************)
(* Chart descriptions (plotly figures)                                     *)
(***************************************************************************)
AutoLayout == [xaxis |-> "auto", yaxis |-> "auto"]

NoFig == [kind |-> "none", error |-> "", traces |-> <<>>, layout |-> AutoLayout]

RaisedFig(e) == [kind |-> "raised", error |-> e, traces |-> <<>>, layout |-> AutoLayout]

NoColorMap == [c \in {} |-> ""]

\* color_discrete_map of px.bar; a category outside it takes a colour of the
\* default sequence.
DiscreteColor(cat, cmap) ==
    IF cat.k = "str" /\ cat.s \in DOMAIN cmap THEN cmap[cat.s]
    ELSE "px_default"

\* px.bar(counts, x=category, y='Count', color=category, text='Count'):
\* a string-valued colour column makes one trace per distinct category, in
\* the order of the rows; a numeric one makes a single trace on a colour
\* scale.  customdata is not set by px.bar here.
px_bar(tbl, numericColor, cmap) ==
    IF numericColor
    THEN <<[name |-> Null,
            x |-> [i \in 1..Len(tbl) |-> tbl[i].value],
            y |-> [i \in 1..Len(tbl) |-> tbl[i].Count],
            text |-> [i \in 1..Len(tbl) |-> tbl[i].Count],
            customdata |-> <<>>,
            marker_color |-> "coloraxis"]>>
    ELSE [i \in 1..Len(tbl) |->
            [name |-> tbl[i].value,
             x |-> <<tbl[i].value>>,
             y |-> <<tbl[i].Count>>,
             text |-> <<tbl[i].Count>>,
             customdata |-> <<>>,
             marker_color |-> DiscreteColor(tbl[i].value, cmap)]]

\* fig.update_traces(customdata=...): every trace gets the same value.
update_traces_customdata(traces, data) ==
    [i \in 1..Len(traces) |-> [traces[i] EXCEPT !.customdata = data]]

BarFig(traces) ==
    [kind |-> "bar", error |-> "", traces |-> traces, layout |-> AutoLayout]

\* The counting step of create_star_type_bar_chart.
star_type_counts(cells) ==
    LET counts == value_counts(cells)
        total == SumCounts(counts)
    IN [i \in 1..Len(counts) |->
          [value |-> counts[i].value, Count |-> counts[i].Count,
           percentage |-> Percentage(counts[i].Count, total)]]

\* Returns the figure and the table as the call leaves it.
create_star_type_bar_chart(star_df) ==
    IF StarTypeCol \notin star_df.columns
    THEN [fig |-> RaisedFig("KeyError"), df |-> star_df]
    ELSE LET addLabel == /\ StarTypeLabelCol \notin star_df.columns
                         /\ is_numeric_dtype(star_df, StarTypeCol)
             after == IF addLabel
                      THEN AssignMapped(star_df, StarTypeLabelCol, StarTypeCol,
                                        star_type_mapping)
                      ELSE star_df
             count_column == IF addLabel THEN StarTypeLabelCol ELSE StarTypeCol
             tbl == star_type_counts(Column(after, count_column))
             traces == px_bar(tbl, is_numeric_dtype(after, count_column), NoColorMap)
         IN [fig |-> BarFig(update_traces_customdata(traces,
                        [i \in 1..Len(tbl) |-> tbl[i].percentage])),
             df |-> after]

color_map ==
    ("Red" :> "OrangeRed") @@ ("Blue" :> "blue") @@ ("Blue-White" :> "lightblue") @@
    ("White" :> "azure") @@ ("Yellow-White" :> "yellow") @@ ("Yellowish" :> "gold") @@
    ("Orange" :> "orange") @@ ("Orange-Red" :> "tomato")

\* The counting step of create_star_color_bar_chart.
star_color_counts(cells) ==
    LET counts == value_counts(cells)
        total == SumCounts(counts)
    IN [i \in 1..Len(counts) |->
          [value |-> counts[i].value, Count |-> counts[i].Count,
           percentage |-> PercentageRounded(counts[i].Count, total)]]

create_star_color_bar_chart(star_df) ==
    IF StarColorCol \notin star_df.columns
    THEN [fig |-> RaisedFig("KeyError"), df |-> star_df]
    ELSE LET tbl == star_color_counts(Column(star_df, StarColorCol))
             traces == px_bar(tbl, is_numeric_dtype(star_df, StarColorCol), color_map)
         IN [fig |-> BarFig(update_traces_customdata(traces,
                        [i \in 1..Len(tbl) |-> tbl[i].percentage])),
             df |-> star_df]

(***************************************************************************)
(* create_boxplots                                                         *)
(***************************************************************************)
numeric_features == <<TemperatureCol, LuminosityCol, RadiusCol, MagnitudeCol>>

positions == <<<<1, 1>>, <<1, 2>>, <<2, 1>>, <<2, 2>>>>

colors ==
    ("Brown Dwarf" :> "brown") @@ ("Red Dwarf" :> "red") @@
    ("White Dwarf" :> "lightskyblue") @@ ("Main Sequence" :> "yellow") @@
    ("Supergiants" :> "blue") @@ ("Hypergiants" :> "orange")

\* colors.get(star_type, 'gray')
BoxColor(star_type) ==
    IF star_type.k = "str" /\ star_type.s \in DOMAIN colors THEN colors[star_type.s]
    ELSE "gray"

\* star_df[star_df['Star type'] == star_type]: NaN equals nothing, itself
\* included.
Subset(star_df, star_type) ==
    SelectSeq(star_df.rows,
              LAMBDA r : ~IsNull(star_type) /\ r[StarTypeCol] = star_type)

\* The star types whose subset passes the len(subset) == 0 test.
BoxedTypes(star_df) ==
    SelectSeq(Uniques(Column(star_df, StarTypeCol)),
              LAMBDA t : Len(Subset(star_df, t)) # 0)

\* The go.Box traces one feature adds to its cell, one per star type.
FeatureBoxes(star_df, i) ==
    LET types == BoxedTypes(star_df)
        feature == numeric_features[i]
    IN [j \in 1..Len(types) |->
          LET subset == Subset(star_df, types[j])
          IN [name |-> types[j],
              y |-> [k \in 1..Len(subset) |-> subset[k][feature]],
              row |-> positions[i][1],
              col |-> positions[i][2],
              marker_color |-> BoxColor(types[j]),
              showlegend |-> (i = 1)]]

create_boxplots(star_df) ==
    IF \/ StarTypeCol \notin star_df.columns
       \/ /\ BoxedTypes(star_df) # <<>>
          /\ \E i \in 1..Len(numeric_features) :
                numeric_features[i] \notin star_df.columns
    THEN [fig |-> RaisedFig("KeyError"), df |-> star_df]
    ELSE [fig |-> [kind |-> "box", error |-> "",
                   traces |-> FeatureBoxes(star_df, 1) \o FeatureBoxes(star_df, 2)
                              \o FeatureBoxes(star_df, 3) \o FeatureBoxes(star_df, 4),
                   layout |-> AutoLayout],
          df |-> star_df]

(***************************************************************************)
(* create_hr_diagram                                                       *)
(***************************************************************************)
SunTemperature == 5778

\* 4.83, in hundredths of a magnitude
SunMagnitude == 483

\* px.scatter(star_df, x=..., y=..., color='Star type'): a numeric colour
\* column gives a single trace of all rows on a colour scale.  A
\* string-valued one is grouped into one trace per value: a column with a
\* single distinct value (NaN counting as one) is taken whole as the one
\* group, otherwise groupby makes the groups and leaves out the rows whose
\* key is NaN.
px_scatter(star_df, xcol, ycol, colorcol) ==
    LET uniques == Uniques(Column(star_df, colorcol))
    IN IF is_numeric_dtype(star_df, colorcol)
       THEN <<[name |-> Null,
               x |-> Column(star_df, xcol),
               y |-> Column(star_df, ycol)]>>
       ELSE IF Len(uniques) = 1
       THEN <<[name |-> uniques[1],
               x |-> Column(star_df, xcol),
               y |-> Column(star_df, ycol)]>>
       ELSE LET keys == SelectSeq(uniques, LAMBDA c : ~IsNull(c))
            IN [j \in 1..Len(keys) |->
                  LET group == SelectSeq(star_df.rows,
                                         LAMBDA r : r[colorcol] = keys[j])
                  IN [name |-> keys[j],
                      x |-> [k \in 1..Len(group) |-> group[k][xcol]],
                      y |-> [k \in 1..Len(group) |-> group[k][ycol]]]]

create_hr_diagram(star_df) ==
    IF {TemperatureCol, MagnitudeCol, StarTypeCol} \subseteq star_df.columns
    THEN [fig |-> [kind |-> "scatter", error |-> "",
                   traces |-> Append(px_scatter(star_df, TemperatureCol,
                                                MagnitudeCol, StarTypeCol),
                                     [name |-> Str("Sun"),
                                      x |-> <<Num(SunTemperature)>>,
                                      y |-> <<Num(SunMagnitude)>>]),
                   layout |-> [xaxis |-> "reversed", yaxis |-> "reversed"]],
          df |-> star_df]
    ELSE [fig |-> RaisedFig("ValueError"), df |-> star_df]

(***************************************************************************)
(* Input files: the CSV at the default path of load_star_data.  The rows   *)
(* are drawn from a small pool per encoding of `Star type`: integer codes  *)
(* (one of them, 6, outside the mapping) or labels (one of them missing).  *)
(***************************************************************************)
MkRow(type, color, temp, lum, radius, mag, spectral) ==
    (StarTypeCol :> type) @@ (StarColorCol :> color) @@ (TemperatureCol :> temp) @@
    (LuminosityCol :> lum) @@ (RadiusCol :> radius) @@ (MagnitudeCol :> mag) @@
    (SpectralCol :> spectral)

CodedRows ==
    {MkRow(Num(3), Str("Yellow-White"), Num(5778), Num(1), Num(1), Num(483), Str("G")),
     MkRow(Num(1), Str("Red"), Num(3000), Num(0), Null, Num(1200), Str("M")),
     MkRow(Num(5), Str("Blue"), Num(30000), Num(200000), Num(1000), Num(-900), Str("O")),
     MkRow(Num(6), Null, Num(9000), Num(50), Num(2), Num(100), Str("A"))}

LabelledRows ==
    {MkRow(Str("Main Sequence"), Str("Yellow-White"), Num(5778), Num(1), Num(1),
           Num(483), Str("G")),
     MkRow(Str("Red Dwarf"), Str("Red"), Num(3000), Num(0), Null, Num(1200), Str("M")),
     MkRow(Str("Hypergiants"), Str("Blue"), Num(30000), Num(200000), Num(1000),
           Num(-900), Str("O")),
     MkRow(Null, Null, Num(9000), Num(50), Num(2), Num(100), Str("A"))}

SeqsUpTo(S, n) == UNION {[1..m -> S] : m \in 0..n}

MissingFile == [exists |-> FALSE, columns |-> {}, rows |-> <<>>]

CsvFile(columns, rows) ==
    [exists |-> TRUE, columns |-> columns,
     rows |-> [i \in 1..Len(rows) |-> [c \in columns |-> rows[i][c]]]]

CompleteFiles ==
    {CsvFile(CsvColumns, rows) :
        rows \in SeqsUpTo(CodedRows, MaxRows) \cup SeqsUpTo(LabelledRows, MaxRows)}

LackingFiles ==
    UNION {{CsvFile(CsvColumns \ {c}, rows) :
              rows \in SeqsUpTo(CodedRows, MaxRowsLacking)
                       \cup SeqsUpTo(LabelledRows, MaxRowsLacking)} :
           c \in CsvColumns}

Files == {MissingFile} \cup CompleteFiles \cup LackingFiles

(***************************************************************************)
(* app.py: one run of the script per user interaction                      *)
(***************************************************************************)
Pages == {"Star Types", "Star Colors", "Physical Properties", "HR Diagram"}

NoCache == [hit |-> FALSE, df |-> NoDf]

Init ==
    /\ file \in Files
    /\ pc = "load"
    /\ run = 1
    /\ cache = NoCache
    /\ loads = <<>>
    /\ df = NoDf
    /\ page = "none"
    /\ shown = <<>>
    /\ calls = <<>>
    /\ fig = NoFig

\* @st.cache_data get_data(): the first value returned is stored, and every
\* later call gets a copy of it; an exception is not stored.
get_data ==
    IF cache.hit THEN [ok |-> TRUE, error |-> "", df |-> cache.df]
    ELSE load_star_data(file)

\* try: df = get_data(); st.success(...)
GetDataOk ==
    /\ pc = "load"
    /\ get_data.ok
    /\ df' = get_data.df
    /\ cache' = [hit |-> TRUE, df |-> get_data.df]
    /\ loads' = Append(loads, "ok")
    /\ shown' = Append(shown, "success")
    /\ pc' = "select"
    /\ UNCHANGED <<file, run, page, calls, fig>>

\* The except branch without st.stop(): the script goes on to the pages.
GetDataError_NoStop ==
    /\ pc = "load"
    /\ ~get_data.ok
    /\ loads' = Append(loads, "error")
    /\ shown' = Append(shown, "error")
    /\ pc' = "select"
    /\ UNCHANGED <<file, run, cache, df, page, calls, fig>>

\* except Exception as e: st.error(...); st.stop()
GetDataError ==
    /\ pc = "load"
    /\ ~get_data.ok
    /\ loads' = Append(loads, "error")
    /\ shown' = Append(shown, "error")
    /\ pc' = "stopped"
    /\ UNCHANGED <<file, run, cache, df, page, calls, fig>>

\* page = st.sidebar.radio(...)
SelectPage(p) ==
    /\ pc = "select"
    /\ page' = p
    /\ pc' = "dispatch"
    /\ UNCHANGED <<file, run, cache, loads, df, shown, calls, fig>>

\* fig = create_...(df); st.plotly_chart(fig): the builder is handed the
\* script's df; an exception of the builder ends the run with the exception
\* on the page.
Render(builder, result) ==
    /\ calls' = Append(calls, [run |-> run, name |-> builder, arg |-> df,
                               after |-> result.df, fig |-> result.fig])
    /\ df' = result.df
    /\ fig' = result.fig
    /\ shown' = Append(shown, IF result.fig.kind = "raised" THEN "exception"
                              ELSE "chart")
    /\ pc' = "done"
    /\ UNCHANGED <<file, run, cache, loads, page>>

RenderStarTypes ==
    /\ pc = "dispatch"
    /\ page = "Star Types"
    /\ Render("create_star_type_bar_chart", create_star_type_bar_chart(df))

RenderStarColors ==
    /\ pc = "dispatch"
    /\ page = "Star Colors"
    /\ Render("create_star_color_bar_chart", create_star_color_bar_chart(df))

RenderPhysicalProperties ==
    /\ pc = "dispatch"
    /\ page = "Physical Properties"
    /\ Render("create_boxplots", create_boxplots(df))

RenderHRDiagram ==
    /\ pc = "dispatch"
    /\ page = "HR Diagram"
    /\ Render("create_hr_diagram", create_hr_diagram(df))

\* A user interaction runs the script again from the top; the cache of
\* get_data outlives the run.
Rerun ==
    /\ pc \in {"done", "stopped"}
    /\ run < MaxRuns
    /\ run' = run + 1
    /\ pc' = "load"
    /\ df' = NoDf
    /\ page' = "none"
    /\ shown' = <<>>
    /\ fig' = NoFig
    /\ UNCHANGED <<file, cache, loads, calls>>

Next ==
    \/ GetDataOk
    \/ GetDataError
    \/ \E p \in Pages : SelectPage(p)
    \/ RenderStarTypes
    \/ RenderStarColors
    \/ RenderPhysicalProperties
    \/ RenderHRDiagram
    \/ Rerun

Spec == Init /\ [][Next]_vars

(***************************************************************************)
(* The chart builders called directly on a table: the table as read_csv    *)
(* returns it, or as load_star_data returns it.                            *)
(***************************************************************************)
InitBuilders ==
    /\ file \in Files
    /\ file.exists
    /\ df \in {read_csv(file).df} \cup
              (IF load_star_data(file).ok THEN {load_star_data(file).df} ELSE {})
    /\ pc = "builders"
    /\ run = 1
    /\ cache = NoCache
    /\ loads = <<>>
    /\ page = "none"
    /\ shown = <<>>
    /\ calls = <<>>
    /\ fig = NoFig

CallBuilder(builder, result) ==
    /\ pc = "builders"
    /\ Len(calls) < MaxCalls
    /\ calls' = Append(calls, [run |-> run, name |-> builder, arg |-> df,
                               after |-> result.df, fig |-> result.fig])
    /\ df' = result.df
    /\ fig' = result.fig
    /\ UNCHANGED <<file, pc, run, cache, loads, page, shown>>

CallStarTypeBarChart ==
    CallBuilder("create_star_type_bar_chart", create_star_type_bar_chart(df))

CallStarColorBarChart ==
    CallBuilder("create_star_color_bar_chart", create_star_color_bar_chart(df))

CallBoxplots == CallBuilder("create_boxplots", create_boxplots(df))

CallHRDiagram == CallBuilder("create_hr_diagram", create_hr_diagram(df))

NextBuilders ==
    \/ CallStarTypeBarChart
    \/ CallStarColorBarChart
    \/ CallBoxplots
    \/ CallHRDiagram

SpecBuilders == InitBuilders /\ [][NextBuilders]_vars

(***************************************************************************)
(* Vocabulary of the properties                                            *)
(***************************************************************************)
BarBuilders == {"create_star_type_bar_chart", "create_star_color_bar_chart"}

\* The calls of the category bar chart builders that returned a chart.
BarCalls == {i \in DOMAIN calls : calls[i].name \in BarBuilders
                                  /\ calls[i].fig.kind = "bar"}

RECURSIVE Bars(_)
\* The bars of a bar chart from left to right: the points of its traces in
\* trace order, each with the trace and the point index it is drawn from.
Bars(traces) ==
    IF traces = <<>> THEN <<>>
    ELSE LET j == Len(traces)
             t == traces[j]
         IN Bars(SubSeq(traces, 1, j - 1)) \o
            [k \in 1..Len(t.x) |->
               [category |-> t.x[k], count |-> t.y[k], trace |-> j, point |-> k]]

\* The percentage column the builder attached (the customdata it set).
PercentageColumn(traces) ==
    IF traces = <<>> THEN <<>> ELSE traces[1].customdata

RECURSIVE RatSum(_)
RatSum(ps) ==
    IF ps = <<>> THEN [num |-> 0, den |-> 1]
    ELSE LET rest == RatSum(Tail(ps))
         IN [num |-> ps[1].num * rest.den + rest.num * ps[1].den,
             den |-> ps[1].den * rest.den]

RatEq(p, q) == p.num * q.den = q.num * p.den

RECURSIVE SumSeq(_)
SumSeq(ns) == IF ns = <<>> THEN 0 ELSE ns[1] + SumSeq(Tail(ns))

BarCountSum(traces) ==
    LET b == Bars(traces) IN SumSeq([i \in 1..Len(b) |-> b[i].count])

\* %{customdata} in the hover of a point: the entry of its trace's
\* customdata at the point's index; there is none beyond the end.
HasHoverPercentage(traces, bar) ==
    bar.point <= Len(traces[bar.trace].customdata)

HoverPercentage(traces, bar) == traces[bar.trace].customdata[bar.point]

\* C1: the percentages a category bar chart attaches to its categories sum
\* to exactly 100, for every catalog from which the chart returns a category.
C1_PercentagesSumTo100 ==
    \A i \in BarCalls :
        LET column == PercentageColumn(calls[i].fig.traces)
        IN (Len(calls[i].arg.rows) >= 1 /\ column # <<>>)
              => RatEq(RatSum(column), [num |-> 100, den |-> 1])

\* C2: the counting step of a category bar chart drops no row: the counts of
\* the returned categories sum to the number of rows of the catalog, and each
\* category's percentage is 100 x count / number of rows.
C2_NoRowDropped ==
    \A i \in BarCalls :
        LET traces == calls[i].fig.traces
            bars == Bars(traces)
            column == PercentageColumn(traces)
            total == Len(calls[i].arg.rows)
        IN /\ BarCountSum(traces) = total
           /\ Len(column) = Len(bars)
           /\ \A b \in 1..Len(bars) :
                 RatEq(column[b], [num |-> 100 * bars[b].count, den |-> total])

\* A file that stores `Star type` as integer codes, all of them in 0..5.
CodedInRange(f) ==
    /\ f.exists
    /\ StarTypeCol \in f.columns
    /\ Len(f.rows) > 0
    /\ \A i \in 1..Len(f.rows) :
          f.rows[i][StarTypeCol].k = "num" /\ f.rows[i][StarTypeCol].n \in 0..5

\* The fixed lookup table of the data model, written out.
TypeLabel(code) ==
    CASE code = 0 -> "Brown Dwarf"
      [] code = 1 -> "Red Dwarf"
      [] code = 2 -> "White Dwarf"
      [] code = 3 -> "Main Sequence"
      [] code = 4 -> "Supergiants"
      [] code = 5 -> "Hypergiants"

\* The file holding the same rows with `Star type` stored as labels.
LabelledTwin(f) ==
    [f EXCEPT !.rows =
        [i \in 1..Len(f.rows) |->
            [f.rows[i] EXCEPT ![StarTypeCol] = Str(TypeLabel(f.rows[i][StarTypeCol].n))]]]

BuilderResult(name, t) ==
    CASE name = "create_star_type_bar_chart" -> create_star_type_bar_chart(t)
      [] name = "create_star_color_bar_chart" -> create_star_color_bar_chart(t)
      [] name = "create_boxplots" -> create_boxplots(t)
      [] name = "create_hr_diagram" -> create_hr_diagram(t)

\* C3: a file storing `Star type` as codes 0-5 and the file holding the same
\* rows with the labels load to equal catalogs, and every chart built from
\* the one is the chart built from the other.
C3_CodedAndLabelledAgree ==
    (cache.hit /\ CodedInRange(file)) =>
        LET twin == load_star_data(LabelledTwin(file))
        IN /\ twin.ok
           /\ cache.df = twin.df
           /\ \A i \in DOMAIN calls :
                 calls[i].fig = BuilderResult(calls[i].name, twin.df).fig

C3_Witness ==
    /\ cache.hit
    /\ CodedInRange(file)
    /\ Len(file.rows) = 3
    /\ file.rows[1][StarTypeCol] # file.rows[2][StarTypeCol]
    /\ \E i \in DOMAIN calls : calls[i].name = "create_star_type_bar_chart"
    /\ \E i \in DOMAIN calls : calls[i].name = "create_boxplots"

\* C4: load_star_data fails whenever the file lacks one of the seven
\* required columns.
C4_MissingColumnFailsLoad ==
    (file.exists /\ ~(CsvColumns \subseteq file.columns)) =>
        \A r \in DOMAIN loads : loads[r] = "error"

\* C5: a run whose load raised shows the error and stops, no chart builder
\* being invoked in it; a chart builder is invoked only in a run whose load
\* succeeded, and with the loaded catalog.
C5_LoadErrorHaltsRendering ==
    /\ \A r \in DOMAIN loads :
          loads[r] = "error" =>
             /\ \A i \in DOMAIN calls : calls[i].run # r
             /\ r = run => (pc = "stopped" /\ shown = <<"error">> /\ fig = NoFig)
    /\ pc = "stopped" => (Len(loads) = run /\ loads[run] = "error")
    /\ \A i \in DOMAIN calls :
          /\ calls[i].run \in DOMAIN loads
          /\ loads[calls[i].run] = "ok"
          /\ load_star_data(file).ok
          /\ calls[i].arg = load_star_data(file).df

C5_Witness ==
    /\ pc = "stopped"
    /\ run = 2
    /\ loads = <<"error", "error">>
    /\ file.exists

\* C6: a numeric `Star type` column holding a code outside 0-5 makes
\* load_star_data fail: no load of such a file succeeds.
C6_OutOfRangeCodeFailsLoad ==
    (/\ file.exists
     /\ StarTypeCol \in file.columns
     /\ is_numeric_dtype(read_csv(file).df, StarTypeCol)
     /\ \E i \in 1..Len(file.rows) :
           file.rows[i][StarTypeCol].k = "num" /\ file.rows[i][StarTypeCol].n \notin 0..5)
        => \A r \in DOMAIN loads : loads[r] = "error"

\* C7: no chart builder changes the table it is given (same columns, same
\* cells), and a builder called again on the table returns the same chart.
C7_BuildersLeaveTableAlone ==
    /\ \A i \in DOMAIN calls :
          /\ calls[i].after.columns = calls[i].arg.columns
          /\ calls[i].after.rows = calls[i].arg.rows
    /\ \A i, j \in DOMAIN calls :
          calls[i].name = calls[j].name => calls[i].fig = calls[j].fig

\* C8: the percentage in the hover of every bar is the bar's own: it is
\* 100 x the bar's count / the sum of the bars' counts, to within the half
\* hundredth that rounding to two decimals allows.
C8_HoverShowsOwnPercentage ==
    \A i \in BarCalls :
        LET traces == calls[i].fig.traces
            bars == Bars(traces)
            total == BarCountSum(traces)
        IN \A b \in 1..Len(bars) :
              /\ HasHoverPercentage(traces, bars[b])
              /\ LET p == HoverPercentage(traces, bars[b])
                     diff == 200 * (p.num * total - 100 * bars[b].count * p.den)
                 IN /\ diff <= p.den * total
                    /\ -diff <= p.den * total

\* C9: the bars of a category bar chart are in non-increasing order of count
\* from left to right, and the same builder on the same catalog gives the
\* same bars in every run.
C9_BarsByDescendingCount ==
    /\ \A i \in BarCalls :
          LET bars == Bars(calls[i].fig.traces)
          IN \A a, b \in 1..Len(bars) : a < b => bars[a].count >= bars[b].count
    /\ \A i, j \in BarCalls :
          (calls[i].name = calls[j].name /\ calls[i].arg = calls[j].arg)
             => Bars(calls[i].fig.traces) = Bars(calls[j].fig.traces)

C9_Witness ==
    \E i, j \in BarCalls :
        LET bars == Bars(calls[i].fig.traces)
        IN /\ i < j
           /\ calls[i].name = calls[j].name
           /\ calls[i].run # calls[j].run
           /\ Len(bars) = 2
           /\ bars[1].count > bars[2].count
           /\ calls[i].arg.rows[1][StarTypeCol] = bars[2].category

\* C10: every box of the box-plot grid has at least one non-null value: a
\* star type without a value for a feature has no box in that feature's cell.
C10_NoEmptyBox ==
    \A i \in DOMAIN calls :
        (calls[i].name = "create_boxplots" /\ calls[i].fig.kind = "box") =>
            \A t \in 1..Len(calls[i].fig.traces) :
                \E k \in 1..Len(calls[i].fig.traces[t].y) :
                    ~IsNull(calls[i].fig.traces[t].y[k])

\* The calls of create_hr_diagram that returned a chart.
HRCalls == {i \in DOMAIN calls : calls[i].name = "create_hr_diagram"
                                 /\ calls[i].fig.kind = "scatter"}

\* The traces of the catalog's records: all but the Sun's, which is added
\* last.
RecordTraces(traces) == SubSeq(traces, 1, Len(traces) - 1)

\* The points of the records of one star type, in catalog order.
PointsOfType(t, star_type) ==
    LET group == SelectSeq(t.rows, LAMBDA r : r[StarTypeCol] = star_type)
    IN [k \in 1..Len(group) |->
          <<group[k][TemperatureCol], group[k][MagnitudeCol]>>]

TracePoints(trace) == [k \in 1..Len(trace.x) |-> <<trace.x[k], trace.y[k]>>]

\* C11: the HR diagram holds exactly one point per record, at the record's
\* temperature and absolute magnitude in the trace of the record's star type
\* (a missing star type included), plus the Sun at (5778, 4.83), and both
\* axes are reversed.
C11_OnePointPerRecord ==
    \A i \in HRCalls :
        LET traces == calls[i].fig.traces
            recs == RecordTraces(traces)
            t == calls[i].arg
        IN /\ Len(traces) >= 1
           /\ traces[Len(traces)].x = <<Num(SunTemperature)>>
           /\ traces[Len(traces)].y = <<Num(SunMagnitude)>>
           /\ calls[i].fig.layout.xaxis = "reversed"
           /\ calls[i].fig.layout.yaxis = "reversed"
           /\ \A r \in 1..Len(t.rows) :
                 \E j \in 1..Len(recs) : recs[j].name = t.rows[r][StarTypeCol]
           /\ \A j, k \in 1..Len(recs) : recs[j].name = recs[k].name => j = k
           /\ \A j \in 1..Len(recs) :
                 TracePoints(recs[j]) = PointsOfType(t, recs[j].name)

=============================================================================
